---- MODULE Spec2Model ----
(***************************************************************************)
(* Model of the two scripts of the repository:                             *)
(*   financial_analysis.py  the 5-year valuation table and its scoring     *)
(*   stock_analysis.py      indicators, crossover detection, sentiment and *)
(*                          the recommendation                             *)
(*                                                                         *)
(* Python values are modelled as records [t, n, d]:                        *)
(*   t = "None"  the Python None                                           *)
(*   t = "NaN"   the float NaN (what pandas stores for a missing number)   *)
(*   t = "inf"   the float +inf                                            *)
(*   t = "num"   the number n/d, d > 0, in lowest terms                    *)
(* The input sets hold small integers, for which the float arithmetic of   *)
(* the scripts and the exact arithmetic below give the same comparisons.   *)
(***************************************************************************)
EXTENDS Integers, Sequences, FiniteSets, TLC

VARIABLES
    \* ---- financial_analysis.py (module-level script) ----
    fpc,                 \* position of the script
    shares_outstanding,  \* stock.info.get('sharesOutstanding', None)
    nYearEnds,           \* len(year_ends)
    years,               \* len(years), years = financials.index[:5]
    i,                   \* loop index of "for i, year in enumerate(years)"
    fin,                 \* the statement data of the periods iterated so far
    results,             \* the list of row dicts
    df,                  \* pd.DataFrame(results)
    row_idx,             \* number of df rows the evaluation loop has visited
    counted,             \* per visited row: did it increment good_years
    good_years,
    total_years,
    verdict,             \* which of st.error / st.success / st.warning ran
    \* ---- stock_analysis.py ----
    spc,                 \* position in main()
    close,               \* df['Close']
    rsi,                 \* df['RSI']
    sma50,               \* df['SMA50']
    sma200,              \* df['SMA200']
    cross_type,
    macd_signal_crossover,
    technical_decision,
    pe_ratio,            \* fundamentals['PE Ratio']
    headlines,           \* per-headline polarity, in quarters (k stands for k/4)
    avg_sentiment,
    sentiment_summary,
    fa_msgs,
    overall

fundVars == <<fpc, shares_outstanding, nYearEnds, years, i, fin, results, df,
              row_idx, counted, good_years, total_years, verdict>>
indVars == <<close, rsi, sma50, sma200>>
mainVars == <<cross_type, macd_signal_crossover, technical_decision,
              pe_ratio, headlines, avg_sentiment, sentiment_summary, fa_msgs,
              overall>>
vars == <<fundVars, spc, indVars, mainVars>>

-----------------------------------------------------------------------------
(* Python / numpy values *)

None == [t |-> "None", n |-> 0, d |-> 1]
NaN == [t |-> "NaN", n |-> 0, d |-> 1]
PosInf == [t |-> "inf", n |-> 0, d |-> 1]
\* the two strings a quote field can hold: the default 'N/A' of
\* fetch_fundamentals, and any other text (yfinance gives 'Infinity')
NotAvailable == [t |-> "N/A", n |-> 0, d |-> 1]
OtherText == [t |-> "str", n |-> 0, d |-> 1]

Abs(x) == IF x < 0 THEN -x ELSE x

RECURSIVE GCD(_, _)
GCD(a, b) == IF b = 0 THEN a ELSE GCD(b, a % b)

\* the number n/d (d # 0) in lowest terms with a positive denominator
Ratio(n, d) ==
    LET g == GCD(Abs(n), Abs(d))
        s == IF d < 0 THEN -1 ELSE 1
    IN  [t |-> "num", n |-> (s * n) \div g, d |-> (s * d) \div g]

Num(k) == [t |-> "num", n |-> k, d |-> 1]

IsFloat(x) == x.t \in {"num", "NaN", "inf"}

\* bool(x): None and 0 are falsy, every other number is truthy, NaN included
Truthy(x) == x.t \in {"NaN", "inf"} \/ (x.t = "num" /\ x.n # 0)

\* x < y and x > y on floats: every comparison with NaN is False
Lt(x, y) ==
    CASE x.t = "num" /\ y.t = "num" -> x.n * y.d < y.n * x.d
      [] x.t = "num" /\ y.t = "inf" -> TRUE
      [] OTHER -> FALSE

Gt(x, y) == Lt(y, x)

Times(x, y) ==
    CASE x.t = "num" /\ y.t = "num" -> Ratio(x.n * y.n, x.d * y.d)
      [] OTHER -> NaN

Plus(x, y) ==
    CASE x.t = "num" /\ y.t = "num" -> Ratio(x.n * y.d + y.n * x.d, x.d * y.d)
      [] x.t = "inf" \/ y.t = "inf" -> PosInf
      [] OTHER -> NaN

Minus(x, y) ==
    CASE x.t = "num" /\ y.t = "num" -> Ratio(x.n * y.d - y.n * x.d, x.d * y.d)
      [] OTHER -> NaN

-----------------------------------------------------------------------------
(* financial_analysis.py *)

\* def safe_div(a, b): a / b, and None when the division raises
\* (a None operand, or a zero divisor)
safe_div(a, b) ==
    CASE a.t = "None" \/ b.t = "None" -> None
      [] a.t = "num" /\ b.t = "num" ->
            IF b.n = 0 THEN None ELSE Ratio(a.n * b.d, a.d * b.n)
      [] OTHER -> NaN

YearsKept == 5

\* lines 33-38: the .loc[year] lookups raise KeyError when the fiscal year is
\* not a row of the balance sheet or of the cash-flow statement; the guards of
\* lines 44-57 keep every later statement of the body from raising
PeriodRaises(p) == ~p.in_balance_sheet \/ ~p.in_cashflow

\* lines 40-42
FreeCashFlow(p) ==
    IF p.cash_from_ops # None /\ p.capex # None
    THEN Plus(p.cash_from_ops, p.capex)
    ELSE None

\* line 44
Roe(net_income, equity) ==
    IF Truthy(net_income) /\ Truthy(equity) /\ equity # Num(0)
    THEN Times(safe_div(net_income, equity), Num(100))
    ELSE None

\* line 45
DebtToEquity(total_debt, equity) ==
    IF Truthy(total_debt) /\ Truthy(equity) /\ equity # Num(0)
    THEN safe_div(total_debt, equity)
    ELSE None

\* line 46
ProfitMargin(net_income, total_revenue) ==
    IF Truthy(net_income) /\ Truthy(total_revenue)
    THEN Times(safe_div(net_income, total_revenue), Num(100))
    ELSE None

\* lines 48-49: the close of the k-th year end, when there is one
PriceOf(k, p, nye) == IF k < nye THEN p.close ELSE None

\* lines 54-57: price / (figure / shares)
PerShareRatio(price, figure, shares) ==
    IF Truthy(figure) /\ Truthy(shares) /\ Truthy(price)
    THEN safe_div(price, safe_div(figure, shares))
    ELSE None

\* lines 59-72: the row appended for period k
ComputeRow(k, p, price, shares) ==
    LET fcf == FreeCashFlow(p)
    IN  [ year           |-> Num(k),
          net_income     |-> p.net_income,
          total_debt     |-> p.total_debt,
          equity         |-> p.equity,
          fcf            |-> fcf,
          roe            |-> Roe(p.net_income, p.equity),
          debt_to_equity |-> DebtToEquity(p.total_debt, p.equity),
          profit_margin  |-> ProfitMargin(p.net_income, p.total_revenue),
          pe             |-> PerShareRatio(price, p.net_income, shares),
          pb             |-> PerShareRatio(price, p.equity, shares),
          ps             |-> PerShareRatio(price, p.total_revenue, shares),
          pfcf           |-> PerShareRatio(price, fcf, shares) ]

Columns == {"year", "net_income", "total_debt", "equity", "fcf", "roe",
            "debt_to_equity", "profit_margin", "pe", "pb", "ps", "pfcf"}

\* line 76, pd.DataFrame(results): a column holding at least one float (a
\* number, NaN included) becomes a float column and its None entries become
\* NaN; a column of None only stays an object column of None
DataFrame(rs) ==
    [k \in 1..Len(rs) |->
        [c \in Columns |->
            IF rs[k][c] = None /\ \E j \in 1..Len(rs) : IsFloat(rs[j][c])
            THEN NaN
            ELSE rs[k][c]]]

\* lines 113-120: the condition of the evaluation loop on one df row
RowPasses(row) ==
    /\ Truthy(row["net_income"]) /\ Gt(row["net_income"], Num(0))
    /\ Truthy(row["roe"]) /\ Gt(row["roe"], Num(15))
    /\ Truthy(row["profit_margin"]) /\ Gt(row["profit_margin"], Num(10))
    /\ Truthy(row["debt_to_equity"]) /\ Lt(row["debt_to_equity"], Ratio(1, 2))
    /\ Truthy(row["pe"]) /\ Lt(row["pe"], Num(20))
    /\ Truthy(row["pb"]) /\ Lt(row["pb"], Num(3))
    /\ Truthy(row["ps"]) /\ Lt(row["ps"], Num(4))
    /\ (row["pfcf"] = None \/ Lt(row["pfcf"], Num(20)))

\* the threshold taken strictly
MeetsThreshold_strict(good, total) == 10 * good > 6 * total

\* line 126: good_years >= total_years * 0.6; for the at most 5 rows of the
\* table the float product orders against an integer as the exact one does
MeetsThreshold(good, total) == 10 * good >= 6 * total

\* lines 123-129
VerdictOf(good, total) ==
    IF total = 0 THEN "insufficient"
    ELSE IF MeetsThreshold(good, total) THEN "pass" ELSE "fail"

-----------------------------------------------------------------------------
(* Inputs of the fundamentals script *)

MaxPeriods == 6     \* fiscal years the financials table may hold
MaxYearEnds == 5    \* rows the resampled year-end price table may hold

Min(a, b) == IF a < b THEN a ELSE b

Shares == {None, Num(0), Num(10)}

\* the share counts the whole script is run on
QuotedShares == {None, Num(10)}

\* every combination of absent (no such line: None; no figure for the year:
\* NaN) / zero / present statement figures
Periods ==
    [ net_income       : {None, NaN, Num(0), Num(30), Num(-30)},
      total_debt       : {None, NaN, Num(0), Num(40)},
      equity           : {None, NaN, Num(0), Num(100)},
      total_revenue    : {None, NaN, Num(0), Num(200)},
      cash_from_ops    : {None, NaN, Num(5), Num(25)},
      capex            : {None, Num(-5)},
      close            : {Num(20)},
      in_balance_sheet : BOOLEAN,
      in_cashflow      : {TRUE} ]

Sound == [ net_income |-> Num(30), total_debt |-> Num(40), equity |-> Num(100),
           total_revenue |-> Num(200), cash_from_ops |-> Num(25),
           capex |-> Num(-5), close |-> Num(20),
           in_balance_sheet |-> TRUE, in_cashflow |-> TRUE ]

\* the fiscal years the whole script is run on: a sound year, the same year
\* without the cash-flow line, with the line but no figure for the year, an
\* expensive one (P/E = 20), one without debt, and one missing from the
\* balance sheet
FiscalYears ==
    { Sound,
      [Sound EXCEPT !.cash_from_ops = None],
      [Sound EXCEPT !.cash_from_ops = NaN],
      [Sound EXCEPT !.close = Num(60)],
      [Sound EXCEPT !.total_debt = Num(0)],
      [Sound EXCEPT !.in_balance_sheet = FALSE] }

-----------------------------------------------------------------------------
(* The fundamentals script as a state machine *)

StockIdle ==
    /\ spc = "off"
    /\ close = <<>> /\ rsi = <<>> /\ sma50 = <<>> /\ sma200 = <<>>
    /\ cross_type = "None" /\ macd_signal_crossover = "None"
    /\ technical_decision = "HOLD"
    /\ pe_ratio = NotAvailable /\ fa_msgs = <<>>
    /\ headlines = <<>> /\ avg_sentiment = None /\ sentiment_summary = ""
    /\ overall = ""

\* lines 17-29
InitFundWith(S) ==
    /\ fpc = "loop"
    /\ shares_outstanding \in S
    /\ nYearEnds \in 0..MaxYearEnds
    /\ years \in {Min(n, YearsKept) : n \in 0..MaxPeriods}
    /\ i = 0
    /\ fin = <<>>
    /\ results = <<>>
    /\ df = <<>>
    /\ row_idx = 0
    /\ counted = <<>>
    /\ good_years = 0
    /\ total_years = 0
    /\ verdict = "none"
    /\ StockIdle

\* lines 31-72: one pass of the loop body that reaches results.append
IterRowFrom(P) ==
    /\ fpc = "loop"
    /\ i < years
    /\ \E p \in P :
          /\ ~PeriodRaises(p)
          /\ fin' = Append(fin, p)
          /\ results' = Append(results,
                ComputeRow(i, p, PriceOf(i, p, nYearEnds), shares_outstanding))
    /\ i' = i + 1
    /\ UNCHANGED <<fpc, shares_outstanding, nYearEnds, years, df, row_idx,
                   counted, good_years, total_years, verdict>>
    /\ UNCHANGED <<spc, indVars, mainVars>>

\* lines 31-38, 73-74: one pass of the loop body that raises and is skipped
IterRaiseFrom(P) ==
    /\ fpc = "loop"
    /\ i < years
    /\ \E p \in P :
          /\ PeriodRaises(p)
          /\ fin' = Append(fin, p)
    /\ i' = i + 1
    /\ UNCHANGED <<fpc, shares_outstanding, nYearEnds, years, results, df,
                   row_idx, counted, good_years, total_years, verdict>>
    /\ UNCHANGED <<spc, indVars, mainVars>>

IterRow == IterRowFrom(FiscalYears)

IterRaise == IterRaiseFrom(FiscalYears)

\* the total taken over the periods attempted instead of the rows produced
BuildDF_attempted ==
    /\ fpc = "loop"
    /\ i = years
    /\ df' = DataFrame(results)
    /\ good_years' = 0
    /\ total_years' = i
    /\ row_idx' = 0
    /\ fpc' = "evaluate"
    /\ UNCHANGED <<shares_outstanding, nYearEnds, years, i, fin, results,
                   counted, verdict>>
    /\ UNCHANGED <<spc, indVars, mainVars>>

\* lines 76, 109-110
BuildDF ==
    /\ fpc = "loop"
    /\ i = years
    /\ df' = DataFrame(results)
    /\ good_years' = 0
    /\ total_years' = Len(df')
    /\ row_idx' = 0
    /\ fpc' = "evaluate"
    /\ UNCHANGED <<shares_outstanding, nYearEnds, years, i, fin, results,
                   counted, verdict>>
    /\ UNCHANGED <<spc, indVars, mainVars>>

\* lines 112-121: one pass of "for _, row in df.iterrows()"
EvalRow ==
    /\ fpc = "evaluate"
    /\ row_idx < Len(df)
    /\ LET pass == RowPasses(df[row_idx + 1])
       IN  /\ good_years' = IF pass THEN good_years + 1 ELSE good_years
           /\ counted' = Append(counted, pass)
    /\ row_idx' = row_idx + 1
    /\ UNCHANGED <<fpc, shares_outstanding, nYearEnds, years, i, fin, results,
                   df, total_years, verdict>>
    /\ UNCHANGED <<spc, indVars, mainVars>>

\* lines 123-129
Verdict ==
    /\ fpc = "evaluate"
    /\ row_idx = Len(df)
    /\ verdict' = VerdictOf(good_years, total_years)
    /\ fpc' = "done"
    /\ UNCHANGED <<shares_outstanding, nYearEnds, years, i, fin, results, df,
                   row_idx, counted, good_years, total_years>>
    /\ UNCHANGED <<spc, indVars, mainVars>>

InitFund == InitFundWith(QuotedShares)

NextFund == IterRow \/ IterRaise \/ BuildDF \/ EvalRow \/ Verdict

SpecFund == InitFund /\ [][NextFund]_vars

\* the loop body alone, on one period, over every combination of inputs
InitCalc == InitFundWith(Shares) /\ years = 1

CalcRow == IterRowFrom(Periods)

CalcRaise == IterRaiseFrom(Periods)

NextCalc == CalcRow \/ CalcRaise

SpecCalc == InitCalc /\ [][NextCalc]_vars

-----------------------------------------------------------------------------
(* Claims about the fundamentals script *)

\* the periods iterated so far whose loop body reached results.append
Produced == {k \in 1..Len(fin) : fin[k].in_balance_sheet /\ fin[k].in_cashflow}

RECURSIVE CountTrue(_)
CountTrue(s) ==
    IF s = <<>> THEN 0
    ELSE (IF s[Len(s)] THEN 1 ELSE 0) + CountTrue(SubSeq(s, 1, Len(s) - 1))

\* the pass predicate of the specification on a valuation row, where None
\* is "no value"
Defined(x) == x.t = "num"

StatedPass(r) ==
    /\ Defined(r.net_income) /\ r.net_income.n > 0
    /\ Defined(r.roe) /\ r.roe.n > 15 * r.roe.d
    /\ Defined(r.profit_margin) /\ r.profit_margin.n > 10 * r.profit_margin.d
    /\ Defined(r.debt_to_equity) /\ 2 * r.debt_to_equity.n < r.debt_to_equity.d
    /\ Defined(r.pe) /\ r.pe.n < 20 * r.pe.d
    /\ Defined(r.pb) /\ r.pb.n < 3 * r.pb.d
    /\ Defined(r.ps) /\ r.ps.n < 4 * r.ps.d
    /\ (~Defined(r.pfcf) \/ r.pfcf.n < 20 * r.pfcf.d)

\* C1: every row the evaluation loop has visited incremented good_years if and
\* only if netIncome > 0, roe > 15, profitMargin > 10, debtToEquity < 0.5,
\* pe < 20, pb < 3, ps < 4 (all present) and pfcf is "no value" or below 20.
C1_PassPredicate ==
    \A k \in 1..Len(counted) : counted[k] <=> StatedPass(results[k])

\* C2: every period iterated produces a result row, so the number of rows
\* equals the number of periods iterated, during the loop and after it.
C2_RowPerPeriod == Len(results) = i

\* the field holds what the specification gives a ratio of two statement
\* figures: "no value" (None or NaN) when an operand is absent or the
\* denominator is 0, the computed number otherwise
StatedRatio(field, num, den, scale) ==
    IF ~Defined(num) \/ ~Defined(den) \/ den = Num(0)
    THEN ~Defined(field)
    ELSE field = Ratio(scale * num.n, den.n)

\* C3: in every row, roe and debtToEquity are "no value" exactly when an
\* operand is absent or totalEquity = 0, profitMargin exactly when an operand
\* is absent or totalRevenue = 0, and hold the computed number otherwise
\* (0 for a numerator of 0).
C3_RatiosDefined ==
    \A k \in 1..Len(results) :
        LET r == results[k]
            p == fin[r.year.n + 1]
        IN  /\ StatedRatio(r.roe, p.net_income, p.equity, 100)
            /\ StatedRatio(r.debt_to_equity, p.total_debt, p.equity, 1)
            /\ StatedRatio(r.profit_margin, p.net_income, p.total_revenue, 100)

\* C4: once the verdict is given, with totalEvaluated the number of rows the
\* loop visited and passingCount the number that passed: no row gives the
\* "insufficient data" outcome; otherwise the verdict is pass if and only if
\* passingCount >= 0.6 * totalEvaluated, and fail if not (3 of 5 passes,
\* 2 of 4 fails).
C4_AggregateVerdict ==
    fpc = "done" =>
        LET totalEvaluated == Len(counted)
            passingCount == CountTrue(counted)
        IN  /\ verdict \in {"insufficient", "pass", "fail"}
            /\ (verdict = "insufficient") <=> (totalEvaluated = 0)
            /\ totalEvaluated > 0 =>
                  ((verdict = "pass") <=> (10 * passingCount >= 6 * totalEvaluated))
            /\ (totalEvaluated = 5 /\ passingCount = 3) => verdict = "pass"
            /\ (totalEvaluated = 4 /\ passingCount = 2) => verdict = "fail"

C4_Witness ==
    /\ fpc = "done" /\ Len(counted) = 5 /\ CountTrue(counted) = 3
    /\ verdict = "pass"

\* C10: at every point of the run the rows are those of the periods that did
\* not raise, at most as many as the periods iterated and at most 5; a period
\* that raised is counted in neither total_years nor good_years; and from the
\* evaluation loop on, 0 <= good_years <= total_years = number of rows <= 5.
C10_Counting ==
    /\ Len(results) <= i /\ i <= years /\ Len(results) <= YearsKept
    /\ Len(results) = Cardinality(Produced)
    /\ \A k \in 1..Len(results) : results[k].year.n + 1 \in Produced
    /\ fpc \in {"evaluate", "done"} =>
          /\ total_years = Len(results)
          /\ Len(counted) = row_idx /\ row_idx <= total_years
          /\ good_years = CountTrue(counted)
          /\ 0 <= good_years /\ good_years <= total_years
          /\ total_years <= YearsKept
    /\ fpc = "done" => Len(counted) = Len(results)

C10_Witness ==
    /\ fpc = "done" /\ years = YearsKept
    /\ Len(results) = 3 /\ good_years = 2

-----------------------------------------------------------------------------
(* stock_analysis.py: calculate_indicators *)

RsiWindow == 14
FastWindow == 50
SlowWindow == 200
CrossMinRows == 200

Max(a, b) == IF a > b THEN a ELSE b

\* numpy float division with a dividend >= 0: x/0 is inf, 0/0 is NaN,
\* x/inf is 0
FloatDiv(a, b) ==
    CASE a.t = "NaN" \/ b.t = "NaN" -> NaN
      [] a.t = "num" /\ b.t = "inf" -> Num(0)
      [] a.t = "num" /\ b.t = "num" ->
            IF b.n # 0 THEN Ratio(a.n * b.d, a.d * b.n)
            ELSE IF a.n = 0 THEN NaN ELSE PosInf
      [] OTHER -> NaN

\* line 17, Series.diff(): no value at the first position
Diff(c) == [j \in 1..Len(c) |-> IF j = 1 THEN NaN ELSE Num(c[j] - c[j - 1])]

\* line 18, clip(lower=0), and line 19, -clip(upper=0); NaN stays NaN
Gain(delta) ==
    [j \in 1..Len(delta) |->
        IF delta[j].t = "num" /\ delta[j].n < 0 THEN Num(0) ELSE delta[j]]

Loss(delta) ==
    [j \in 1..Len(delta) |->
        IF delta[j].t = "num"
        THEN (IF delta[j].n > 0 THEN Num(0) ELSE Num(-delta[j].n))
        ELSE delta[j]]

RECURSIVE SumRange(_, _, _)
SumRange(s, lo, hi) ==
    IF lo > hi THEN Num(0)
    ELSE IF lo = hi THEN s[lo]
    ELSE LET mid == (lo + hi) \div 2
         IN  Plus(SumRange(s, lo, mid), SumRange(s, mid + 1, hi))

\* Series.rolling(window=w).mean(): no value until w observations are in the
\* window, none of them NaN
RollingMean(s, w) ==
    [j \in 1..Len(s) |->
        IF j < w THEN NaN
        ELSE Times(SumRange(s, j - w + 1, j), Ratio(1, w))]

\* lines 25-26
RsiOf(avg_gain, avg_loss) ==
    LET rs == FloatDiv(avg_gain, avg_loss)
    IN  Minus(Num(100), FloatDiv(Num(100), Plus(Num(1), rs)))

\* lines 17-26: the RSI column
RsiColumn(c) ==
    LET delta == Diff(c)
        avg_gain == RollingMean(Gain(delta), RsiWindow)
        avg_loss == RollingMean(Loss(delta), RsiWindow)
    IN  [j \in 1..Len(c) |-> RsiOf(avg_gain[j], avg_loss[j])]

\* lines 38-39
SmaColumn(c, w) == RollingMean([j \in 1..Len(c) |-> Num(c[j])], w)

-----------------------------------------------------------------------------
(* stock_analysis.py: detect_crosses *)

\* the last two entries of a column (the last one when it has no more)
LastTwo(s) == SubSeq(s, Max(1, Len(s) - 1), Len(s))

\* lines 48-52, on the tails of the SMA50 and SMA200 columns of n rows
SmaCross(n, t50, t200) ==
    IF n >= CrossMinRows
    THEN IF Lt(t50[1], t200[1]) /\ Gt(t50[2], t200[2]) THEN "Golden Cross"
         ELSE IF Gt(t50[1], t200[1]) /\ Lt(t50[2], t200[2]) THEN "Death Cross"
         ELSE "None"
    ELSE "None"

\* lines 54-57, on the tails of the MACD and Signal columns
MacdCross(tm, ts) ==
    IF Lt(tm[1], ts[1]) /\ Gt(tm[2], ts[2]) THEN "Bullish Crossover"
    ELSE IF Gt(tm[1], ts[1]) /\ Lt(tm[2], ts[2]) THEN "Bearish Crossover"
    ELSE "None"

\* line 54: .iloc[-2] raises IndexError on a column of one row
DetectRaises(n) == n < 2

-----------------------------------------------------------------------------
(* Indicators and crossover detection as a state machine *)

Run(v, n) == [k \in 1..n |-> v]

Prices == {1, 100, 101, 200}

\* close series of up to three flat runs
Series ==
    { Run(a, n1) \o Run(b, n2) \o Run(c, n3) :
        a \in Prices, b \in Prices, c \in Prices,
        n1 \in {0, 13, 149, 150}, n2 \in {0, 1, 50}, n3 \in {1, 2} }

\* the values the MACD and Signal columns are given at their last two rows;
\* the exponentially weighted means of lines 28-31 are not computed here
MacdValues == {Num(-1), Num(0), Num(1)}

FundIdle ==
    /\ fpc = "off"
    /\ shares_outstanding = None /\ nYearEnds = 0 /\ years = 0 /\ i = 0
    /\ fin = <<>> /\ results = <<>> /\ df = <<>> /\ row_idx = 0
    /\ counted = <<>> /\ good_years = 0 /\ total_years = 0
    /\ verdict = "none"

MainIdle ==
    /\ cross_type = "None" /\ macd_signal_crossover = "None"
    /\ technical_decision = "HOLD"
    /\ pe_ratio = NotAvailable /\ fa_msgs = <<>>
    /\ headlines = <<>> /\ avg_sentiment = None /\ sentiment_summary = ""
    /\ overall = ""

\* line 151: a non-empty price table
InitInd ==
    /\ spc = "indicators"
    /\ close \in Series
    /\ rsi = <<>> /\ sma50 = <<>> /\ sma200 = <<>>
    /\ MainIdle
    /\ FundIdle

\* line 157, lines 16-41
CalculateIndicators ==
    /\ spc = "indicators"
    /\ rsi' = RsiColumn(close)
    /\ sma50' = SmaColumn(close, FastWindow)
    /\ sma200' = SmaColumn(close, SlowWindow)
    /\ spc' = "detect"
    /\ UNCHANGED <<close, fundVars, mainVars>>

\* line 158, lines 44-59: detect_crosses returns
DetectCrosses ==
    /\ spc = "detect"
    /\ ~DetectRaises(Len(close))
    /\ cross_type' = SmaCross(Len(close), LastTwo(sma50), LastTwo(sma200))
    /\ \E m1 \in MacdValues, m2 \in MacdValues,
          s1 \in MacdValues, s2 \in MacdValues :
          macd_signal_crossover' = MacdCross(<<m1, m2>>, <<s1, s2>>)
    /\ spc' = "detected"
    /\ UNCHANGED <<technical_decision, pe_ratio, headlines, avg_sentiment,
                   sentiment_summary, fa_msgs, overall>>
    /\ UNCHANGED <<indVars, fundVars>>

\* line 158, line 54: detect_crosses raises, and main() with it
DetectCrossesRaise ==
    /\ spc = "detect"
    /\ DetectRaises(Len(close))
    /\ spc' = "error"
    /\ UNCHANGED <<indVars, fundVars, mainVars>>

NextInd == CalculateIndicators \/ DetectCrosses \/ DetectCrossesRaise

SpecInd == InitInd /\ [][NextInd]_vars

-----------------------------------------------------------------------------
(* Claims about the indicators and the crossover detector *)

RECURSIVE CloseSum(_, _, _)
CloseSum(c, lo, hi) ==
    IF lo > hi THEN 0
    ELSE IF lo = hi THEN c[lo]
    ELSE LET mid == (lo + hi) \div 2
         IN  CloseSum(c, lo, mid) + CloseSum(c, mid + 1, hi)

\* SMA50 below / above SMA200 at row j (1-based), both being defined there
FastBelowSlow(c, j) ==
    /\ j >= 200
    /\ 200 * CloseSum(c, j - 49, j) < 50 * CloseSum(c, j - 199, j)

FastAboveSlow(c, j) ==
    /\ j >= 200
    /\ 200 * CloseSum(c, j - 49, j) > 50 * CloseSum(c, j - 199, j)

\* C5: for a price series of any non-empty length N detect_crosses returns
\* without raising; with N < 200 the crossType is "None"; with N >= 200 it is
\* Golden Cross iff SMA50 < SMA200 at the second-to-last row and SMA50 > SMA200
\* at the last, Death Cross iff the reverse, and "None" in every other case.
C5_SmaCrossTotal ==
    /\ spc # "error"
    /\ spc = "detected" =>
          LET n == Len(close)
              golden == FastBelowSlow(close, n - 1) /\ FastAboveSlow(close, n)
              death == FastAboveSlow(close, n - 1) /\ FastBelowSlow(close, n)
          IN  /\ n < 200 => cross_type = "None"
              /\ n >= 200 =>
                    /\ (cross_type = "Golden Cross") <=> golden
                    /\ (cross_type = "Death Cross") <=> death
                    /\ (cross_type = "None") <=> (~golden /\ ~death)

\* the sum of the rises / of the falls of the 14 deltas that end at row j
RECURSIVE Rises(_, _, _)
Rises(c, lo, hi) ==
    IF lo > hi THEN 0
    ELSE Max(c[hi] - c[hi - 1], 0) + Rises(c, lo, hi - 1)

RECURSIVE Falls(_, _, _)
Falls(c, lo, hi) ==
    IF lo > hi THEN 0
    ELSE Max(c[hi - 1] - c[hi], 0) + Falls(c, lo, hi - 1)

\* C9: at every row of index >= 14 (0-based) of the RSI column, a window with
\* avgLoss = 0 and avgGain > 0 gives RSI = 100, a window with avgGain = 0 and
\* avgLoss = 0 gives RSI = 50, and the RSI is a number between 0 and 100.
C9_RsiDegenerate ==
    spc # "indicators" =>
        \A j \in 15..Len(close) :
            LET g == Rises(close, j - 13, j)
                l == Falls(close, j - 13, j)
            IN  /\ (l = 0 /\ g > 0) => rsi[j] = Num(100)
                /\ (l = 0 /\ g = 0) => rsi[j] = Num(50)
                /\ rsi[j].t = "num"
                /\ 0 <= rsi[j].n /\ rsi[j].n <= 100 * rsi[j].d

-----------------------------------------------------------------------------
(* stock_analysis.py: the decision, the sentiment and the recommendation *)

CrossTypes == {"None", "Golden Cross", "Death Cross"}
MacdCrossovers == {"None", "Bullish Crossover", "Bearish Crossover"}

\* the bearish branch tested before the bullish one
TechnicalDecision_sellFirst(ct, mc) ==
    IF ct = "Death Cross" \/ mc = "Bearish Crossover" THEN "SELL"
    ELSE IF ct = "Golden Cross" \/ mc = "Bullish Crossover" THEN "BUY"
    ELSE "HOLD"

\* lines 160-170
TechnicalDecision(ct, mc) ==
    IF ct = "Golden Cross" \/ mc = "Bullish Crossover" THEN "BUY"
    ELSE IF ct = "Death Cross" \/ mc = "Bearish Crossover" THEN "SELL"
    ELSE "HOLD"

RECURSIVE SumSeq(_)
SumSeq(s) == IF s = <<>> THEN 0 ELSE s[Len(s)] + SumSeq(SubSeq(s, 1, Len(s) - 1))

\* line 113, np.mean of the polarities, each k standing for k/4
MeanPolarity(h) == Ratio(SumSeq(h), 4 * Len(h))

\* the two thresholds taken inclusively
SentimentLabel_inclusive(avg) ==
    IF ~Lt(avg, Ratio(5, 100)) THEN "Positive"
    ELSE IF ~Gt(avg, Ratio(-5, 100)) THEN "Negative"
    ELSE "Neutral"

\* lines 114-119
SentimentLabel(avg) ==
    IF Gt(avg, Ratio(5, 100)) THEN "Positive"
    ELSE IF Lt(avg, Ratio(-5, 100)) THEN "Negative"
    ELSE "Neutral"

\* lines 109-120
sentiment_analysis(h) ==
    IF h = <<>>
    THEN <<None, "No headlines to analyze.">>
    ELSE <<MeanPolarity(h), SentimentLabel(MeanPolarity(h))>>

\* line 132
Overall(decision, avg) ==
    IF decision = "BUY" /\ Truthy(avg) /\ Gt(avg, Num(0))
    THEN "BUY"
    ELSE "HOLD/WAIT"

\* line 125: fundamentals['PE Ratio'] < 15 is evaluated unless the field is
\* 'N/A'; it raises TypeError on None and on any other string
SummaryRaises(pe) == pe # NotAvailable /\ pe.t \in {"None", "str"}

\* lines 124-128
FaMsgs(pe) ==
    IF pe # NotAvailable /\ Lt(pe, Num(15))
    THEN <<"PE Ratio suggests the stock might be undervalued.">>
    ELSE <<"PE Ratio is average or high.">>

\* the values of info['trailingPE']: no key, None, a text, a number
PeRatios == {NotAvailable, None, OtherText, NaN, Num(10), Num(15)}

MaxHeadlines == 5

Polarities == {-1, 0, 1}

RECURSIVE SeqsUpTo(_, _)
SeqsUpTo(S, n) ==
    IF n = 0 THEN {<<>>}
    ELSE LET shorter == SeqsUpTo(S, n - 1)
         IN  shorter \cup {Append(h, x) : h \in shorter, x \in S}

\* line 158: main() once detect_crosses has returned
InitMain ==
    /\ spc = "decide"
    /\ cross_type \in CrossTypes
    /\ macd_signal_crossover \in MacdCrossovers
    /\ technical_decision = "HOLD"
    /\ pe_ratio = NotAvailable /\ fa_msgs = <<>>
    /\ headlines = <<>> /\ avg_sentiment = None /\ sentiment_summary = ""
    /\ overall = ""
    /\ close = <<>> /\ rsi = <<>> /\ sma50 = <<>> /\ sma200 = <<>>
    /\ FundIdle

\* lines 160-170
Decide ==
    /\ spc = "decide"
    /\ technical_decision' = TechnicalDecision(cross_type, macd_signal_crossover)
    /\ spc' = "fundamentals"
    /\ UNCHANGED <<cross_type, macd_signal_crossover, pe_ratio, headlines,
                   avg_sentiment, sentiment_summary, fa_msgs, overall>>
    /\ UNCHANGED <<indVars, fundVars>>

\* lines 172-173, 62-72: info.get('trailingPE', 'N/A')
FetchFundamentals ==
    /\ spc = "fundamentals"
    /\ pe_ratio' \in PeRatios
    /\ spc' = "sentiment"
    /\ UNCHANGED <<cross_type, macd_signal_crossover, technical_decision,
                   headlines, avg_sentiment, sentiment_summary, fa_msgs,
                   overall>>
    /\ UNCHANGED <<indVars, fundVars>>

\* lines 189, 196: the headlines fetched and their sentiment
SentimentAnalysis ==
    /\ spc = "sentiment"
    /\ \E h \in SeqsUpTo(Polarities, MaxHeadlines) :
          /\ headlines' = h
          /\ avg_sentiment' = sentiment_analysis(h)[1]
          /\ sentiment_summary' = sentiment_analysis(h)[2]
    /\ spc' = "summary"
    /\ UNCHANGED <<cross_type, macd_signal_crossover, technical_decision,
                   pe_ratio, fa_msgs, overall>>
    /\ UNCHANGED <<indVars, fundVars>>

\* line 203, lines 123-134: summary_report returns
SummaryReport ==
    /\ spc = "summary"
    /\ ~SummaryRaises(pe_ratio)
    /\ fa_msgs' = FaMsgs(pe_ratio)
    /\ overall' = Overall(technical_decision, avg_sentiment)
    /\ spc' = "done"
    /\ UNCHANGED <<cross_type, macd_signal_crossover, technical_decision,
                   pe_ratio, headlines, avg_sentiment, sentiment_summary>>
    /\ UNCHANGED <<indVars, fundVars>>

\* line 203, line 125: summary_report raises TypeError, and main() with it
SummaryReportRaise ==
    /\ spc = "summary"
    /\ SummaryRaises(pe_ratio)
    /\ spc' = "error"
    /\ UNCHANGED <<indVars, fundVars, mainVars>>

NextMain ==
    \/ Decide \/ FetchFundamentals \/ SentimentAnalysis
    \/ SummaryReport \/ SummaryReportRaise

SpecMain == InitMain /\ [][NextMain]_vars

-----------------------------------------------------------------------------
(* Claims about the decision, the sentiment and the recommendation *)

Bullish == cross_type = "Golden Cross" \/ macd_signal_crossover = "Bullish Crossover"
Bearish == cross_type = "Death Cross" \/ macd_signal_crossover = "Bearish Crossover"

\* C6: once decided, technicalSignal is BUY iff crossType is Golden Cross or
\* macdCrossover is Bullish, SELL iff it is not BUY and crossType is Death
\* Cross or macdCrossover is Bearish, HOLD otherwise; a bullish and a bearish
\* signal together give BUY.
C6_DecisionRule ==
    spc \in {"fundamentals", "sentiment", "summary", "done", "error"} =>
        /\ (technical_decision = "BUY") <=> Bullish
        /\ (technical_decision = "SELL") <=> (~Bullish /\ Bearish)
        /\ (technical_decision = "HOLD") <=> (~Bullish /\ ~Bearish)
        /\ (Bullish /\ Bearish) => technical_decision = "BUY"

C6_Witness ==
    /\ spc = "fundamentals"
    /\ cross_type = "Golden Cross"
    /\ macd_signal_crossover = "Bearish Crossover"
    /\ technical_decision = "BUY"

\* C7: summary_report returns, with overall = "BUY" iff technicalSignal is BUY
\* and the sentiment average is defined and strictly above 0, "HOLD/WAIT" in
\* every other case; an average in (0, 0.05] with technicalSignal BUY gives
\* BUY while the sentiment label is Neutral.
C7_OverallRule ==
    /\ spc # "error"
    /\ spc = "done" =>
        LET defined == headlines # <<>>
            total == SumSeq(headlines)
            buy == technical_decision = "BUY" /\ defined /\ total > 0
        IN  /\ (overall = "BUY") <=> buy
            /\ (overall = "HOLD/WAIT") <=> ~buy
            /\ (buy /\ 5 * total <= Len(headlines)) =>
                  (overall = "BUY" /\ sentiment_summary = "Neutral")

\* C8: for no headline sentiment_analysis gives a "no value" average, which is
\* not the number 0, with the no-headlines message and none of the three
\* labels; for headlines it gives the arithmetic mean of the polarities and
\* Positive iff mean > 0.05, Negative iff mean < -0.05, Neutral otherwise
\* (at exactly 0.05 and exactly -0.05 too).
C8_Sentiment ==
    spc \in {"summary", "done", "error"} =>
        LET n == Len(headlines)
            total == SumSeq(headlines)
        IN  /\ n = 0 =>
                  /\ avg_sentiment = None /\ avg_sentiment # Num(0)
                  /\ sentiment_summary = "No headlines to analyze."
            /\ n > 0 =>
                  /\ avg_sentiment.t = "num"
                  /\ avg_sentiment.n * 4 * n = total * avg_sentiment.d
                  /\ (sentiment_summary = "Positive") <=> (5 * total > n)
                  /\ (sentiment_summary = "Negative") <=> (5 * total < -n)
                  /\ (sentiment_summary = "Neutral") <=>
                        (5 * total <= n /\ 5 * total >= -n)

C8_Witness ==
    /\ spc = "summary"
    /\ Len(headlines) = 5 /\ SumSeq(headlines) = 1
    /\ avg_sentiment = Ratio(1, 20)
    /\ sentiment_summary = "Neutral"

====
